---- MODULE Spec2Model ----
(***************************************************************************)
(* Order authorization and settlement ledger                               *)
(* (server/src/routes/authorize.js, server/src/routes/settlements.js,      *)
(* server/src/routes/orders.js, the SQLite adapter server/src/db/index.js, *)
(* the in-memory store and scripts/verify-db-consistency.js).              *)
(*                                                                         *)
(* Money.  JavaScript numbers holding currency amounts are represented as  *)
(* integers counting mills (1/1000 of a currency unit): 100.00 is 100000,  *)
(* 0.01 is 10, 0.004 is 4.  A value has at most two decimal digits iff it  *)
(* is a multiple of 10.  Binary floating point drift (below 1e-9) is       *)
(* represented only where the code compares a product with its rounding    *)
(* (times100IsInteger).  Non-finite and non-numeric inputs are tagged      *)
(* records.                                                                *)
(*                                                                         *)
(* Tables.  orders and authorizations are sets of rows (order_id is the    *)
(* key of orders; the adapter's upsert keeps one authorization row per     *)
(* order_id, which presupposes a unique index on authorizations.order_id); *)
(* settlements is the sequence of inserted rows.  An order row keeps       *)
(* card_last4, the one column derived from the card.  The columns no       *)
(* handler reads back (customer_name, provider_token, created_at, the row  *)
(* ids) are left out.                                                      *)
(***************************************************************************)
EXTENDS Integers, Sequences, FiniteSets, TLC

VARIABLES orders, authorizations, settlements, last, scn, reqs

vars == <<orders, authorizations, settlements, last, scn, reqs>>
ledger == <<orders, authorizations, settlements>>

(***************************************************************************)
(* Bounds and input domains                                                *)
(***************************************************************************)
MaxSettlements == 2

OrderIds == {"ORD-1"}
\* orderId of an authorize body: an id, or missing/empty
AuthorizeIds == OrderIds \cup {""}
\* orderId of a settle body: an id, missing/empty, blanks only, or an id no order carries
SettleIds == OrderIds \cup {"", " ", "ORD-9"}

\* values of an amount field: a finite number, NaN, or something that is no number
\* (a missing field, a non-numeric string)
Num(v) == [k |-> "num", v |-> v]
NaN == [k |-> "nan", v |-> 0]
NotANumber == [k |-> "str", v |-> 0]

\* b.card of an authorize body: an object with the card number (a string, one
\* character per element) and the CVV, a field that is absent, or a falsy value ("")
Card(number, cvv) == [k |-> "obj", number |-> number, cvv |-> cvv]
MissingCard == [k |-> "missing", number |-> <<>>, cvv |-> ""]
FalsyCard == [k |-> "falsy", number |-> <<>>, cvv |-> ""]
\* 41-1234 with CVV 123 and 55-1234 with CVV 999: the same last four digits
CardA == Card(<<"4", "1", "-", "1", "2", "3", "4">>, "123")
CardB == Card(<<"5", "5", "-", "1", "2", "3", "4">>, "999")
CardC == Card(<<"4", "1", "-", "5", "6", "7", "8">>, "321")
Cards == {CardA, FalsyCard}

\* requestedAmount after normalisation: 100.00, 0.004 and the invalid ones
AuthAmounts == {Num(100000), Num(4), Num(0), NaN, NotANumber}
\* amount of a settle body: 40.00, 60.00, 59.99, 0.01, then 0.015 (three decimals)
\* and the invalid ones
SettleAmounts == {Num(40000), Num(60000), Num(59990), Num(10), Num(15), Num(0), NotANumber}

\* provider replies: a network failure, or an HTTP status with a body.
\* json: the body parses as JSON; Success: body.Success === true;
\* Reason: the words of body.Reason as the provider wrote them
Reply(status, success, reason) ==
    [net |-> TRUE, json |-> TRUE, status |-> status, Success |-> success, Reason |-> reason]
\* a reply whose body is empty or plain text
RawReply(status) ==
    [net |-> TRUE, json |-> FALSE, status |-> status, Success |-> FALSE, Reason |-> {}]
NetworkError == [net |-> FALSE, json |-> FALSE, status |-> 0, Success |-> FALSE, Reason |-> {}]
ProviderResponses ==
    {NetworkError, Reply(200, TRUE, {}), Reply(200, FALSE, {"insufficient"}),
     Reply(200, FALSE, {}), Reply(422, FALSE, {})}

\* inputs of the authorize requests that are observed in full
AuthCards == {CardA, MissingCard, FalsyCard}
\* a network failure, an approval, a decline, an unexpected body
AuthProviderResponses ==
    {NetworkError, Reply(200, TRUE, {}), Reply(200, FALSE, {"insufficient"}),
     Reply(200, FALSE, {"declined"})}
AuthSettleAmounts == {Num(100000)}
\* the replies the outcome mapping is run over
MapStatuses == {200, 201, 402, 422, 500}
MapReasons == {{}, {"insufficient"}, {"Insufficient"}, {"incorrect"}, {"invalid"},
               {"insufficient", "invalid"}, {"declined"}}
MapProviderResponses ==
    {NetworkError} \cup {RawReply(st) : st \in MapStatuses}
      \cup {Reply(st, ok, rs) : st \in MapStatuses, ok \in BOOLEAN, rs \in MapReasons}

\* inputs of the requests served while store calls throw
FaultCards == {CardA, MissingCard}
FaultAuthAmounts == {Num(100000), Num(0)}
FaultProviderResponses == {Reply(200, TRUE, {}), Reply(200, FALSE, {"insufficient"}), NetworkError}
FaultSettleAmounts == {Num(100000), Num(10), NotANumber}

Slots == {"r1", "r2"}
\* inputs of the requests that run together
ConcAuthAmounts == {Num(100000), Num(4)}
ConcProviderResponses == {Reply(200, TRUE, {}), NetworkError}
ConcSettleIds == OrderIds \cup {"ORD-9"}
ConcSettleAmounts == {Num(40000), Num(60000), Num(0)}

(***************************************************************************)
(* shared/constants.js                                                     *)
(***************************************************************************)
ORDER_STATUS == [PENDING |-> "PENDING", AUTHORIZED |-> "AUTHORIZED",
                 SETTLED |-> "SETTLED", ERROR |-> "ERROR"]
AUTH_OUTCOME == [SUCCESS |-> "SUCCESS", INSUFFICIENT_FUNDS |-> "INSUFFICIENT_FUNDS",
                 INCORRECT_DETAILS |-> "INCORRECT_DETAILS", SERVER_ERROR |-> "SERVER_ERROR"]

(***************************************************************************)
(* helpers of the route modules                                            *)
(***************************************************************************)
\* Number(x): a missing field or a non-numeric string becomes NaN
ToNumber(x) == IF x.k = "str" THEN NaN ELSE x
isFinite(x) == x.k = "num"
\* (orderId ?? '').toString().trim()
trim(s) == IF s = " " THEN "" ELSE s
\* variant: the number is kept as given
toMoneyUnrounded(n) == n

\* Number(Number(n).toFixed(2)) on mills: round to the nearest cent, ties away from zero
\* (toFixed decides a tie by the binary value of n; no amount rounded here is a tie)
toMoney(n) == IF n >= 0 THEN ((n + 5) \div 10) * 10 ELSE -((((-n) + 5) \div 10) * 10)

\* n * 100 is a binary floating point product.  Of the amounts with at most two
\* decimal digits used as inputs here, these have a product that is no integer:
\*   0.07 * 100 = 7.000000000000001, 1.1 * 100 = 110.00000000000001,
\*   19.99 * 100 = 1998.9999999999998
\* (1146 of the 10001 amounts 0.00, 0.01, ..., 100.00 do); the product of every
\* other amount used here (0.01, 10.00, 40.00, 50.00, 59.99, 60.00, 99.99, 100.00,
\* 200.00, -0.01) is exact
InexactTimes100 == {70, 1100, 19990}

\* variant: the product is computed in decimal arithmetic
times100IsIntegerDecimal(v) == v % 10 = 0

\* Math.round(n * 100) === n * 100 for the number n of v mills
times100IsInteger(v) == v % 10 = 0 /\ v \notin InexactTimes100

\* Number.isFinite(n) && Math.round(n * 100) === n * 100
hasTwoDecimalsMax(x) == isFinite(x) /\ times100IsInteger(x.v)

(***************************************************************************)
(* db/index.js over db = [orders, authorizations, settlements]             *)
(***************************************************************************)
DB == [orders |-> orders, authorizations |-> authorizations, settlements |-> settlements]

\* SELECT * FROM orders WHERE order_id = ?   (empty set: undefined)
getOrder(db, orderId) == {o \in db.orders : o.order_id = orderId}

createOrder(db, row) == [db EXCEPT !.orders = @ \cup {row}]

\* variant: the UPDATE has no WHERE clause
updateOrderStatusEvery(db, orderId, newStatus) ==
    [db EXCEPT !.orders = {[o EXCEPT !.status = newStatus] : o \in @}]

\* UPDATE orders SET status = ? WHERE order_id = ?
updateOrderStatus(db, orderId, newStatus) ==
    [db EXCEPT !.orders =
        {IF o.order_id = orderId THEN [o EXCEPT !.status = newStatus] ELSE o : o \in @}]

\* SELECT ... WHERE order_id = ? ORDER BY datetime(created_at) DESC LIMIT 1
\* (at most one row per order_id under the upsert)
getAuthorizationByOrderId(db, orderId) == {a \in db.authorizations : a.order_id = orderId}

\* variant: INSERT without the conflict clause, earlier rows are kept
createAuthorizationInserting(db, row) == [db EXCEPT !.authorizations = @ \cup {row}]

\* INSERT ... ON CONFLICT(order_id) DO UPDATE SET ...
createAuthorization(db, row) ==
    [db EXCEPT !.authorizations = {a \in @ : a.order_id # row.order_id} \cup {row}]

RECURSIVE SumRows(_, _)
SumRows(rows, orderId) ==
    IF rows = <<>> THEN 0
    ELSE (IF Head(rows).order_id = orderId /\ Head(rows).outcome = "SUCCESS"
          THEN Head(rows).amount ELSE 0) + SumRows(Tail(rows), orderId)

\* SELECT COALESCE(SUM(amount),0) FROM settlements WHERE order_id = ? AND outcome = 'SUCCESS'
sumSettlementsForOrder(db, orderId) == SumRows(db.settlements, orderId)

\* variant: the row takes the place of the rows stored before
createSettlementReplacing(db, row) == [db EXCEPT !.settlements = <<row>>]

\* INSERT INTO settlements (order_id, amount, outcome, created_at) VALUES (...)
createSettlement(db, row) == [db EXCEPT !.settlements = Append(@, row)]

(***************************************************************************)
(* POST /api/settlements                                                   *)
(***************************************************************************)
SettleRsp(code, status, hasAvail, avail, db) ==
    [code |-> code, status |-> status, hasAvail |-> hasAvail,
     availableToSettle |-> avail, db |-> db]

\* variant: a rejected request is recorded as an EXCEEDS_AUTH settlement row
rejectRecording(db, orderId, amount, code, hasAvail, avail) ==
    SettleRsp(code, "", hasAvail, avail,
              IF code = "AMOUNT_EXCEEDS_AVAILABLE"
              THEN createSettlement(db, [order_id |-> orderId, amount |-> amount.v,
                                         outcome |-> "EXCEEDS_AUTH"])
              ELSE db)

\* an early return of the request for (orderId, amount):
\* res.status(4xx).json({ code [, availableToSettle] }), nothing written
reject(db, orderId, amount, code, hasAvail, avail) == SettleRsp(code, "", hasAvail, avail, db)

\* variant: the sign of the amount is checked before the shape of the request
validateSettleSignFirst(orderId, amount) ==
    IF isFinite(amount) /\ amount.v <= 0 THEN "INVALID_AMOUNT"
    ELSE IF orderId = "" \/ ~isFinite(amount) THEN "BAD_REQUEST"
    ELSE IF ~hasTwoDecimalsMax(amount) THEN "INVALID_AMOUNT_PRECISION"
    ELSE ""

\* basic request validation: the code of the failing check, "" when all pass
validateSettle(orderId, amount) ==
    IF orderId = "" \/ ~isFinite(amount) THEN "BAD_REQUEST"
    ELSE IF amount.v <= 0 THEN "INVALID_AMOUNT"
    ELSE IF ~hasTwoDecimalsMax(amount) THEN "INVALID_AMOUNT_PRECISION"
    ELSE ""

\* variant: only a missing authorization is refused
noApprovedAuthMissingOnly(auths) == auths = {}

\* !auth || auth.outcome !== 'SUCCESS'
noApprovedAuth(auths) == auths = {} \/ (\E a \in auths : a.outcome # "SUCCESS")

\* variant: earlier settlements are not subtracted
availableOfAuthorizedOnly(auth, settledSoFar) == toMoney(auth.amount)

\* authorized = toMoney(auth.amount); available = toMoney(authorized - settledSoFar)
availableOf(auth, settledSoFar) == toMoney(toMoney(auth.amount) - settledSoFar)

\* variant: amount >= available
exceedsAvailableOrEqual(amount, available) == amount >= available

\* amount > available
exceedsAvailable(amount, available) == amount > available

\* variant: the settled amount is not subtracted
remainingOfUnreduced(available, amount) == toMoney(available)

\* remaining = toMoney(available - amount)
remainingOf(available, amount) == toMoney(available - amount)

\* variant: a remainder of up to one cent counts as settled
statusForWithinCent(remaining) ==
    IF remaining <= 10 THEN ORDER_STATUS.SETTLED ELSE ORDER_STATUS.AUTHORIZED

\* remaining === 0 ? SETTLED : AUTHORIZED
statusFor(remaining) ==
    IF remaining = 0 THEN ORDER_STATUS.SETTLED ELSE ORDER_STATUS.AUTHORIZED

\* variant: the amount is stored in cents
settlementRowInCents(orderId, amount) ==
    [order_id |-> orderId, amount |-> toMoney(amount) * 100, outcome |-> "SUCCESS"]

\* createSettlement({ order_id, amount: toMoney(amount), outcome: 'SUCCESS' })
settlementRow(orderId, amount) ==
    [order_id |-> orderId, amount |-> toMoney(amount), outcome |-> "SUCCESS"]

\* a store call may throw (a failed statement, a busy or unwritable database file);
\* fault names the call of the request that does, NoFault when none does
NoFault == "none"
\* the awaited store calls of the handler
SettleCalls == {"getOrder", "getAuthorizationByOrderId", "sumSettlementsForOrder",
                "createSettlement", "updateOrderStatus"}

\* catch (e) { return res.status(500).json({ code: 'SERVER_ERROR' }) }
caughtSettle(db) == SettleRsp("SERVER_ERROR", "", FALSE, 0, db)

settle(db, rawOrderId, rawAmount, fault) ==
    LET orderId == trim(rawOrderId)
        amount == ToNumber(rawAmount)
        invalid == validateSettle(orderId, amount)
    IN
    IF invalid # "" THEN reject(db, orderId, amount, invalid, FALSE, 0)
    ELSE IF fault = "getOrder" THEN caughtSettle(db)
    ELSE IF getOrder(db, orderId) = {} THEN reject(db, orderId, amount, "ORDER_NOT_FOUND", FALSE, 0)
    ELSE IF fault = "getAuthorizationByOrderId" THEN caughtSettle(db)
    ELSE LET auths == getAuthorizationByOrderId(db, orderId) IN
    IF noApprovedAuth(auths) THEN reject(db, orderId, amount, "NO_APPROVED_AUTH", FALSE, 0)
    ELSE IF fault = "sumSettlementsForOrder" THEN caughtSettle(db)
    ELSE LET auth == CHOOSE a \in auths : TRUE
             settledSoFar == sumSettlementsForOrder(db, orderId)
             available == availableOf(auth, settledSoFar)
         IN
         IF exceedsAvailable(amount.v, available)
         THEN reject(db, orderId, amount, "AMOUNT_EXCEEDS_AVAILABLE", TRUE, available)
         ELSE IF fault = "createSettlement" THEN caughtSettle(db)
         ELSE LET db1 == createSettlement(db, settlementRow(orderId, amount.v))
                  remaining == remainingOf(available, amount.v)
                  newStatus == statusFor(remaining)
                  db2 == updateOrderStatus(db1, orderId, newStatus)
              IN IF fault = "updateOrderStatus" THEN caughtSettle(db1)
                 ELSE SettleRsp("OK", newStatus, TRUE, remaining, db2)

(***************************************************************************)
(* POST /api/authorize                                                     *)
(***************************************************************************)
\* the awaited store calls of the handler
AuthorizeCalls == {"getOrder", "createOrder", "createAuthorization", "updateOrderStatus"}

\* b.card ?? { number, expMonth, expYear, cvv, name }: an absent card becomes an
\* object built from the flat fields of the body (here absent too)
normalizedCard(card) == IF card.k = "missing" THEN Card(<<>>, "") ELSE card
\* !card is false of every object
truthy(card) == card.k = "obj"

Digits == {"0", "1", "2", "3", "4", "5", "6", "7", "8", "9"}
IsDigit(c) == c \in Digits

\* variant: the whole card number is kept
last4Whole(pan) == pan

\* (pan.replace(/\D/g, '').slice(-4) || '0000')
last4(pan) ==
    LET d == SelectSeq(pan, IsDigit) IN
    IF d = <<>> THEN <<"0", "0", "0", "0">>
    ELSE SubSeq(d, IF Len(d) > 4 THEN Len(d) - 3 ELSE 1, Len(d))

\* reason = providerBody?.Reason?.toLowerCase?.() || ''
toLowerCase(w) == IF w = "Insufficient" THEN "insufficient" ELSE w
includes(reason, w) == w \in {toLowerCase(x) : x \in reason}

\* variant: a failed call is made a second time
callProviderRetrying(p) ==
    IF p.net /\ p.json
    THEN [providerStatus |-> p.status, Success |-> p.Success, Reason |-> p.Reason, calls |-> 1]
    ELSE [providerStatus |-> 500, Success |-> FALSE, Reason |-> {}, calls |-> 2]

\* one fetch, then resp.json().  A network failure leaves status 500.  When the body
\* is no JSON, resp.json() rejects and the fallback resp.text() reads a body that
\* is already consumed, which rejects too: the outer catch sets status 500 again.
callProvider(p) ==
    IF p.net /\ p.json
    THEN [providerStatus |-> p.status, Success |-> p.Success, Reason |-> p.Reason, calls |-> 1]
    ELSE [providerStatus |-> 500, Success |-> FALSE, Reason |-> {}, calls |-> 1]

\* provider status and body -> outcome
mapOutcome(r) ==
    IF r.providerStatus = 200
    THEN IF r.Success THEN AUTH_OUTCOME.SUCCESS
         ELSE IF includes(r.Reason, "insufficient") THEN AUTH_OUTCOME.INSUFFICIENT_FUNDS
         ELSE IF includes(r.Reason, "incorrect") \/ includes(r.Reason, "invalid")
              THEN AUTH_OUTCOME.INCORRECT_DETAILS
         ELSE AUTH_OUTCOME.SERVER_ERROR
    ELSE IF r.providerStatus = 402 THEN AUTH_OUTCOME.INSUFFICIENT_FUNDS
    ELSE IF r.providerStatus = 422 THEN AUTH_OUTCOME.INCORRECT_DETAILS
    ELSE AUTH_OUTCOME.SERVER_ERROR

\* calls: the number of requests sent to the provider
AuthRsp(code, status, outcome, calls, db) ==
    [code |-> code, status |-> status, outcome |-> outcome, calls |-> calls, db |-> db]

\* variant: the exception leaves the handler, no response is sent
escapedAuthorize(db, calls) == AuthRsp("", "", "", calls, db)

\* catch (e) { return res.status(500).json({ code: 'SERVER_ERROR' }) }
caughtAuthorize(db, calls) == AuthRsp("SERVER_ERROR", "", "", calls, db)

\* variant: the order row is written on every request
orderMissingAlways(db, orderId) == TRUE

\* order = await getOrder(orderId); if (!order) ...
orderMissing(db, orderId) == getOrder(db, orderId) = {}

\* variant: the code of a provider failure is the outcome
failureCodeOutcome(outcome) == outcome

\* the code of the 402 / 422 / 502 responses
failureCode(outcome) ==
    IF outcome = AUTH_OUTCOME.INSUFFICIENT_FUNDS THEN "INSUFFICIENT_FUNDS"
    ELSE IF outcome = AUTH_OUTCOME.INCORRECT_DETAILS THEN "INCORRECT_DETAILS"
    ELSE "PROVIDER_ERROR"

\* variant: a SETTLED order keeps its status
statusAfterKeepingSettled(db, orderId, outcome) ==
    IF \E o \in db.orders : o.order_id = orderId /\ o.status = ORDER_STATUS.SETTLED
    THEN ORDER_STATUS.SETTLED
    ELSE IF outcome = AUTH_OUTCOME.SUCCESS THEN ORDER_STATUS.AUTHORIZED ELSE ORDER_STATUS.ERROR

\* the status written after the authorization is stored
statusAfter(db, orderId, outcome) ==
    IF outcome = AUTH_OUTCOME.SUCCESS THEN ORDER_STATUS.AUTHORIZED ELSE ORDER_STATUS.ERROR

\* basic validation: the code of the 400 / 422 response, "" when the request passes
validateAuthorize(orderId, card, requestedAmount) ==
    IF orderId = "" \/ ~truthy(card) \/ requestedAmount.k = "str" THEN "BAD_REQUEST"
    ELSE IF ~isFinite(requestedAmount) \/ requestedAmount.v <= 0 THEN "INVALID_AMOUNT"
    ELSE ""

\* card: b.card of the body; requestedAmount: the normalised amount; p: the reply
\* the provider gives; fault: the store call that throws
authorize(db, orderId, rawCard, requestedAmount, p, fault) ==
    LET card == normalizedCard(rawCard) IN
    IF validateAuthorize(orderId, card, requestedAmount) # ""
    THEN AuthRsp(validateAuthorize(orderId, card, requestedAmount), "", "", 0, db)
    ELSE IF fault = "getOrder" \/ (fault = "createOrder" /\ orderMissing(db, orderId))
    THEN caughtAuthorize(db, 0)
    ELSE
    LET db1 == IF orderMissing(db, orderId)
               THEN createOrder(db, [order_id |-> orderId,
                                     status |-> ORDER_STATUS.PENDING,
                                     card_last4 |-> last4(card.number),
                                     amount |-> toMoney(requestedAmount.v)])
               ELSE db
        r == callProvider(p)
        outcome == mapOutcome(r)
        db2 == createAuthorization(db1, [order_id |-> orderId,
                                         amount |-> toMoney(requestedAmount.v),
                                         outcome |-> outcome])
        newStatus == statusAfter(db2, orderId, outcome)
        db3 == updateOrderStatus(db2, orderId, newStatus)
    IN
    IF fault = "createAuthorization" THEN caughtAuthorize(db1, r.calls)
    ELSE IF fault = "updateOrderStatus" THEN caughtAuthorize(db2, r.calls)
    ELSE IF outcome = AUTH_OUTCOME.SUCCESS
    THEN AuthRsp("OK", ORDER_STATUS.AUTHORIZED, outcome, r.calls, db3)
    ELSE AuthRsp(failureCode(outcome),
                 IF failureCode(outcome) = "PROVIDER_ERROR" THEN "ERROR" ELSE "DECLINED",
                 outcome, r.calls, db3)

(***************************************************************************)
(* State machine: requests served one after the other                      *)
(*   last: the request served last and the response it got                 *)
(*   scn : progress of the request sequence settle 40.00, 60.00, 0.01 on   *)
(*         ORD-1 started from a SUCCESS authorization of 100.00 with no    *)
(*         settlements; 0 when the sequence is broken                      *)
(***************************************************************************)
NoRequest == [op |-> "none", orderId |-> "", amount |-> Num(0), code |-> "",
              status |-> "", hasAvail |-> FALSE, availableToSettle |-> 0]

IdleReq == [pc |-> "idle", orderId |-> "", amount |-> 0, order |-> {}, auth |-> {},
            settledSoFar |-> 0, available |-> 0]

Init ==
    /\ orders = {}
    /\ authorizations = {}
    /\ settlements = <<>>
    /\ last = NoRequest
    /\ scn = 0
    /\ reqs = [r \in Slots |-> IdleReq]

Install(db) ==
    /\ orders' = db.orders
    /\ authorizations' = db.authorizations
    /\ settlements' = db.settlements

ScenarioStart ==
    /\ [order_id |-> "ORD-1", amount |-> 100000, outcome |-> "SUCCESS"] \in authorizations
    /\ \A i \in 1..Len(settlements) : settlements[i].order_id # "ORD-1"

scenarioStep(rawOrderId, rawAmount) ==
    IF rawOrderId = "ORD-1" /\ rawAmount = Num(40000) /\ ScenarioStart THEN 1
    ELSE IF rawOrderId = "ORD-1" /\ rawAmount = Num(60000) /\ scn = 1 THEN 2
    ELSE IF rawOrderId = "ORD-1" /\ rawAmount = Num(10) /\ scn = 2 THEN 3
    ELSE 0

Authorize(orderId, card, requestedAmount, p) ==
    LET rsp == authorize(DB, orderId, card, requestedAmount, p, NoFault) IN
    /\ Install(rsp.db)
    /\ last' = [op |-> "authorize", orderId |-> orderId, amount |-> requestedAmount,
                code |-> rsp.code, status |-> rsp.status,
                hasAvail |-> FALSE, availableToSettle |-> 0]
    /\ scn' = 0
    /\ UNCHANGED reqs

Settle(rawOrderId, rawAmount) ==
    LET rsp == settle(DB, rawOrderId, rawAmount, NoFault) IN
    /\ rsp.code = "OK" => Len(settlements) < MaxSettlements
    /\ Install(rsp.db)
    /\ last' = [op |-> "settle", orderId |-> rawOrderId, amount |-> rawAmount,
                code |-> rsp.code, status |-> rsp.status,
                hasAvail |-> rsp.hasAvail, availableToSettle |-> rsp.availableToSettle]
    /\ scn' = scenarioStep(rawOrderId, rawAmount)
    /\ UNCHANGED reqs

Next ==
    \/ \E o \in AuthorizeIds, c \in Cards, a \in AuthAmounts, p \in ProviderResponses :
         Authorize(o, c, a, p)
    \/ \E o \in SettleIds, a \in SettleAmounts : Settle(o, a)

Spec == Init /\ [][Next]_vars

(***************************************************************************)
(* State machine: settle requests in flight together.  The handler is an   *)
(* async function: each awaited adapter call runs its statement and then   *)
(* yields, so another request may run between two steps of this one.       *)
(* reqs[r] holds the position and the locals of the request in slot r.     *)
(***************************************************************************)
SetReq(r, rec) == reqs' = [reqs EXCEPT ![r] = rec]

\* lines 21-38: normalise, validate, getOrder
SettleBegin(r, rawOrderId, rawAmount) ==
    LET orderId == trim(rawOrderId)
        amount == ToNumber(rawAmount)
    IN
    /\ reqs[r].pc = "idle"
    /\ IF validateSettle(orderId, amount) # ""
       THEN UNCHANGED reqs
       ELSE SetReq(r, [IdleReq EXCEPT !.pc = "gotOrder", !.orderId = orderId,
                                      !.amount = amount.v,
                                      !.order = getOrder(DB, orderId)])
    /\ UNCHANGED <<ledger, last, scn>>

\* lines 39-44: order must exist, getAuthorizationByOrderId
SettleCheckOrder(r) ==
    /\ reqs[r].pc = "gotOrder"
    /\ IF reqs[r].order = {}
       THEN SetReq(r, IdleReq)
       ELSE SetReq(r, [reqs[r] EXCEPT !.pc = "gotAuth",
                                      !.auth = getAuthorizationByOrderId(DB, reqs[r].orderId)])
    /\ UNCHANGED <<ledger, last, scn>>

\* lines 45-50: authorization must be SUCCESS, sumSettlementsForOrder
SettleCheckAuth(r) ==
    /\ reqs[r].pc = "gotAuth"
    /\ IF noApprovedAuth(reqs[r].auth)
       THEN SetReq(r, IdleReq)
       ELSE SetReq(r, [reqs[r] EXCEPT !.pc = "gotSum",
                                      !.settledSoFar = sumSettlementsForOrder(DB, reqs[r].orderId)])
    /\ UNCHANGED <<ledger, last, scn>>

\* lines 51-66: available, amount <= available, createSettlement
SettleCheckAmount(r) ==
    LET q == reqs[r]
        available == availableOf(CHOOSE a \in q.auth : TRUE, q.settledSoFar)
    IN
    /\ q.pc = "gotSum"
    /\ IF exceedsAvailable(q.amount, available)
       THEN /\ SetReq(r, IdleReq)
            /\ UNCHANGED ledger
       ELSE /\ Len(settlements) < MaxSettlements
            /\ Install(createSettlement(DB, settlementRow(q.orderId, q.amount)))
            /\ SetReq(r, [q EXCEPT !.pc = "created", !.available = available])
    /\ UNCHANGED <<last, scn>>

\* lines 68-71: remaining, newStatus, updateOrderStatus
SettleUpdateStatus(r) ==
    LET q == reqs[r] IN
    /\ q.pc = "created"
    /\ Install(updateOrderStatus(DB, q.orderId, statusFor(remainingOf(q.available, q.amount))))
    /\ SetReq(r, [q EXCEPT !.pc = "updated"])
    /\ UNCHANGED <<last, scn>>

\* lines 73-83: the response
SettleRespond(r) ==
    /\ reqs[r].pc = "updated"
    /\ SetReq(r, IdleReq)
    /\ UNCHANGED <<ledger, last, scn>>

\* an authorize request served between the steps of the settle requests
AuthorizeBetween(orderId, requestedAmount, p) ==
    /\ Install(authorize(DB, orderId, CardA, requestedAmount, p, NoFault).db)
    /\ UNCHANGED <<last, scn, reqs>>

NextConc ==
    \/ \E o \in OrderIds, a \in ConcAuthAmounts, p \in ConcProviderResponses :
         AuthorizeBetween(o, a, p)
    \/ \E r \in Slots, o \in ConcSettleIds, a \in ConcSettleAmounts : SettleBegin(r, o, a)
    \/ \E r \in Slots : SettleCheckOrder(r)
    \/ \E r \in Slots : SettleCheckAuth(r)
    \/ \E r \in Slots : SettleCheckAmount(r)
    \/ \E r \in Slots : SettleUpdateStatus(r)
    \/ \E r \in Slots : SettleRespond(r)

SpecConc == Init /\ [][NextConc]_vars

(***************************************************************************)
(* State machine: requests served one after the other, the authorize       *)
(* requests observed in full: last holds the card and the provider reply   *)
(* of the request, the status the order had before it (prev, "" when the   *)
(* order did not exist), the outcome, the number of provider calls and the *)
(* store call that threw.                                                  *)
(***************************************************************************)
statusBefore(orderId) ==
    IF \E o \in orders : o.order_id = orderId
    THEN (CHOOSE o \in orders : o.order_id = orderId).status
    ELSE ""

AuthorizeRequest(orderId, card, requestedAmount, p, fault) ==
    LET rsp == authorize(DB, orderId, card, requestedAmount, p, fault) IN
    /\ Install(rsp.db)
    /\ last' = [op |-> "authorize", orderId |-> orderId, amount |-> requestedAmount,
                card |-> card, p |-> p, fault |-> fault, prev |-> statusBefore(orderId),
                code |-> rsp.code, status |-> rsp.status, outcome |-> rsp.outcome,
                calls |-> rsp.calls, hasAvail |-> FALSE, availableToSettle |-> 0]
    /\ scn' = 0
    /\ UNCHANGED reqs

NextAuth ==
    \/ \E o \in AuthorizeIds, c \in AuthCards, a \in AuthAmounts, p \in AuthProviderResponses :
         AuthorizeRequest(o, c, a, p, NoFault)
    \/ \E o \in OrderIds, a \in AuthSettleAmounts : Settle(o, a)

SpecAuth == Init /\ [][NextAuth]_vars

SettleRequest(rawOrderId, rawAmount, fault) ==
    LET rsp == settle(DB, rawOrderId, rawAmount, fault) IN
    /\ Len(rsp.db.settlements) > Len(settlements) => Len(settlements) < MaxSettlements
    /\ Install(rsp.db)
    /\ last' = [op |-> "settle", orderId |-> rawOrderId, amount |-> rawAmount,
                fault |-> fault, prev |-> statusBefore(trim(rawOrderId)),
                code |-> rsp.code, status |-> rsp.status,
                hasAvail |-> rsp.hasAvail, availableToSettle |-> rsp.availableToSettle]
    /\ scn' = 0
    /\ UNCHANGED reqs

\* requests served one after the other, any one store call of a request throwing
NextFault ==
    \/ \E c \in FaultCards, a \in FaultAuthAmounts, p \in FaultProviderResponses,
          f \in AuthorizeCalls \cup {NoFault} : AuthorizeRequest("ORD-1", c, a, p, f)
    \/ \E a \in FaultSettleAmounts, f \in SettleCalls \cup {NoFault} :
          SettleRequest("ORD-1", a, f)

SpecFault == Init /\ [][NextFault]_vars

\* authorize requests for 100.00 on ORD-1, the provider reply ranging over
\* statuses, JSON and plain bodies, Success flags and Reason texts
NextMap == \E p \in MapProviderResponses : AuthorizeRequest("ORD-1", CardA, Num(100000), p, NoFault)

SpecMap == Init /\ [][NextMap]_vars

\* settle requests on ORD-1 over amounts with two and with three decimal digits
PrecisionAmounts ==
    {Num(10005), Num(10000), Num(19990), Num(1100), Num(70), Num(15), Num(10), Num(0),
     NotANumber}

NextPrecision ==
    \/ \E p \in ConcProviderResponses : AuthorizeRequest("ORD-1", CardA, Num(100000), p, NoFault)
    \/ \E a \in PrecisionAmounts : SettleRequest("ORD-1", a, NoFault)

SpecPrecision == Init /\ [][NextPrecision]_vars

(***************************************************************************)
(* State machine: the store used directly, as scripts/test-db.mjs does:    *)
(* createSettlement called with either outcome, the sums read back.  The   *)
(* repository has two stores with the same interface, the SQLite adapter   *)
(* and an in-memory store.                                                 *)
(***************************************************************************)
MaxStoreRows == 3

StoreIds == {"ORD-1", "ORD-2"}
StoreAmounts == {50000, 200000}
StoreOutcomes == {"SUCCESS", "EXCEEDS_AUTH"}

\* ensureList(orderId): the rows kept under the key orderId
ensureList(db, orderId) == SelectSeq(db.settlements, LAMBDA s : s.order_id = orderId)

RECURSIVE reduceSum(_)
\* list.reduce((sum, s) => sum + Number(s.amount), 0)
reduceSum(list) == IF list = <<>> THEN 0 ELSE Head(list).amount + reduceSum(Tail(list))

\* sumSettlementsForOrder of the in-memory store
memorySumSettlementsForOrder(db, orderId) == reduceSum(ensureList(db, orderId))

CreateSettlement(orderId, amount, outcome) ==
    /\ Len(settlements) < MaxStoreRows
    /\ Install(createSettlement(DB, [order_id |-> orderId, amount |-> amount,
                                     outcome |-> outcome]))
    /\ last' = [op |-> "createSettlement", orderId |-> orderId, amount |-> Num(amount),
                code |-> "", status |-> "", hasAvail |-> FALSE, availableToSettle |-> 0,
                outcome |-> outcome]
    /\ UNCHANGED <<scn, reqs>>

NextStore ==
    \E o \in StoreIds, a \in StoreAmounts, oc \in StoreOutcomes : CreateSettlement(o, a, oc)

SpecStore == Init /\ [][NextStore]_vars

(***************************************************************************)
(* GET /api/orders/:id                                                     *)
(***************************************************************************)
DetailIds == OrderIds \cup {"ORD-9"}

\* SELECT * FROM settlements WHERE order_id = ? ORDER BY datetime(created_at)
listSettlementsByOrderId(db, orderId) ==
    SelectSeq(db.settlements, LAMBDA s : s.order_id = orderId)

\* Math.max(0, x)
max0(x) == IF x > 0 THEN x ELSE 0

DetailsRsp(code, order, authorization, rows, hasAvail, avail, db) ==
    [code |-> code, order |-> order, authorization |-> authorization, settlements |-> rows,
     hasAvail |-> hasAvail, availableToSettle |-> avail, db |-> db]

\* variant: the amount of the order row is taken as the authorized amount
authorizedAmtOfOrder(order, authorization) == (CHOOSE o \in order : TRUE).amount

\* authorizedAmt = authorization?.amount ?? 0
authorizedAmtOf(order, authorization) ==
    IF authorization = {} THEN 0 ELSE (CHOOSE a \in authorization : TRUE).amount

\* variant: the read marks an order with nothing left to settle as SETTLED
getOrderDetailsSettling(db, orderId) ==
    IF getOrder(db, orderId) = {}
    THEN DetailsRsp("ORDER_NOT_FOUND", {}, {}, <<>>, FALSE, 0, db)
    ELSE
    LET authorization == getAuthorizationByOrderId(db, orderId)
        settled == sumSettlementsForOrder(db, orderId)
        authorizedAmt == authorizedAmtOf(getOrder(db, orderId), authorization)
        availableToSettle == max0(toMoney(authorizedAmt - settled))
    IN DetailsRsp("OK", getOrder(db, orderId), authorization,
                  listSettlementsByOrderId(db, orderId), TRUE, availableToSettle,
                  IF availableToSettle = 0
                  THEN updateOrderStatus(db, orderId, ORDER_STATUS.SETTLED) ELSE db)

\* authorizedAmt = authorization?.amount ?? 0: the amount of the order's
\* authorization row, whatever its outcome
getOrderDetails(db, orderId) ==
    IF getOrder(db, orderId) = {}
    THEN DetailsRsp("ORDER_NOT_FOUND", {}, {}, <<>>, FALSE, 0, db)
    ELSE
    LET authorization == getAuthorizationByOrderId(db, orderId)
        settled == sumSettlementsForOrder(db, orderId)
        authorizedAmt == authorizedAmtOf(getOrder(db, orderId), authorization)
        availableToSettle == max0(toMoney(authorizedAmt - settled))
    IN DetailsRsp("OK", getOrder(db, orderId), authorization,
                  listSettlementsByOrderId(db, orderId), TRUE, availableToSettle, db)

(***************************************************************************)
(* State machine: requests served one after the other, order details read  *)
(* between them.  status: the status of the order returned; again: the     *)
(* request before this one was a details request for the same order.       *)
(***************************************************************************)
GetOrderDetails(orderId) ==
    LET rsp == getOrderDetails(DB, orderId) IN
    /\ Install(rsp.db)
    /\ last' = [op |-> "details", orderId |-> orderId, amount |-> Num(0),
                code |-> rsp.code,
                status |-> IF rsp.order = {} THEN ""
                           ELSE (CHOOSE o \in rsp.order : TRUE).status,
                hasAvail |-> rsp.hasAvail,
                availableToSettle |-> rsp.availableToSettle,
                again |-> last.op = "details" /\ last.orderId = orderId]
    /\ UNCHANGED <<scn, reqs>>

NextRead ==
    \/ Next
    \/ \E o \in DetailIds : GetOrderDetails(o)

SpecRead == Init /\ [][NextRead]_vars

(***************************************************************************)
(* scripts/verify-db-consistency.js: the audit of a store.  A defect is a  *)
(* line printed by fail(): its kind, the order_id it names and, for the    *)
(* checks made row by row, the position of the row.                        *)
(***************************************************************************)
MaxAuditRows == 2

AuditIds == {"ORD-1", "ORD-2"}
AuditStatuses == {ORDER_STATUS.AUTHORIZED, ORDER_STATUS.SETTLED}
AuditAuthorizations == [amount : {100000, 10}, outcome : {"SUCCESS", "INSUFFICIENT_FUNDS"}]
AuditSettlements ==
    {[order_id |-> o, amount |-> x[1], outcome |-> x[2]] :
        o \in AuditIds,
        x \in {<<99990, "SUCCESS">>, <<10, "SUCCESS">>, <<99990, "EXCEEDS_AUTH">>,
               <<-10, "SUCCESS">>}}

\* the tables a database file can hold: order_id is the primary key of orders
OrderTables ==
    {{[order_id |-> o, status |-> st[o], card_last4 |-> <<"0", "0", "0", "0">>,
       amount |-> 100000] : o \in S} :
        S \in SUBSET AuditIds, st \in [AuditIds -> AuditStatuses]}
AuthorizationTables ==
    {{[order_id |-> o, amount |-> f[o].amount, outcome |-> f[o].outcome] : o \in S} :
        S \in SUBSET AuditIds, f \in [AuditIds -> AuditAuthorizations]}
SettlementTables == UNION {[1..n -> AuditSettlements] : n \in 0..MaxAuditRows}

money(n) == n
isTwoDecimals(n) == times100IsInteger(n)

Defect(kind, orderId, row) == [kind |-> kind, order_id |-> orderId, row |-> row]

\* 1) SELECT order_id, COUNT(*) c FROM orders GROUP BY order_id HAVING c > 1
duplicateOrderIds(db) ==
    {Defect("DUPLICATE_ORDER_ID", o.order_id, 0) :
        o \in {x \in db.orders : Cardinality(getOrder(db, x.order_id)) > 1}}

\* 2) rows of authorizations / settlements without an order
orphanRows(db) ==
    {Defect("AUTHORIZATION_ORPHAN", a.order_id, 0) :
        a \in {x \in db.authorizations : getOrder(db, x.order_id) = {}}}
    \cup
    {Defect("SETTLEMENT_ORPHAN", db.settlements[i].order_id, i) :
        i \in {j \in 1..Len(db.settlements) : getOrder(db, db.settlements[j].order_id) = {}}}

\* 3) amounts with more than two decimals; settlements also when negative
badAmounts(db) ==
    {Defect("ORDER_AMOUNT_PRECISION", o.order_id, 0) :
        o \in {x \in db.orders : ~isTwoDecimals(money(x.amount))}}
    \cup
    {Defect("AUTHORIZATION_AMOUNT_PRECISION", a.order_id, 0) :
        a \in {x \in db.authorizations : ~isTwoDecimals(money(x.amount))}}
    \cup
    {Defect("SETTLEMENT_AMOUNT_INVALID", db.settlements[i].order_id, i) :
        i \in {j \in 1..Len(db.settlements) :
                  \/ ~isTwoDecimals(money(db.settlements[j].amount))
                  \/ money(db.settlements[j].amount) < 0}}

\* created_at and rowid of an authorization row; a store that keeps one row
\* per order does not record them
createdAt(a) == IF "created_at" \in DOMAIN a THEN a.created_at ELSE 0
rowid(a) == IF "id" \in DOMAIN a THEN a.id ELSE 0

\* WHERE a.order_id = ? AND a.outcome = 'SUCCESS'
\*   ORDER BY datetime(a.created_at) DESC, rowid DESC LIMIT 1
latestSuccessAuthStmt(db, orderId) ==
    LET rows == {a \in db.authorizations : a.order_id = orderId /\ a.outcome = "SUCCESS"} IN
    {a \in rows :
        \A b \in rows :
            createdAt(b) < createdAt(a) \/ (createdAt(b) = createdAt(a) /\ rowid(b) <= rowid(a))}

\* SELECT COALESCE(SUM(amount),0) ... WHERE order_id = ? AND outcome = 'SUCCESS'
sumSettleStmt(db, orderId) == SumRows(db.settlements, orderId)

\* variant: an order settled to its authorized amount counts as over-settled
overSettledOrEqual(settledTotal, authAmount) == settledTotal >= authAmount

\* Rule A: settledTotal > authAmount + 1e-9
overSettled(settledTotal, authAmount) == settledTotal > authAmount

\* variant: a difference of one cent is tolerated
mismatchBeyondCent(settledTotal, authAmount) ==
    settledTotal - authAmount > 10 \/ authAmount - settledTotal > 10

\* Rule B: Math.abs(settledTotal - authAmount) > 1e-9
mismatch(settledTotal, authAmount) == settledTotal # authAmount

\* 4) the rules applied to one row o of orders
perOrderRules(db, o) ==
    LET auth == latestSuccessAuthStmt(db, o.order_id)
        settledTotal == money(sumSettleStmt(db, o.order_id))
    IN
    IF auth # {}
    THEN LET authAmount == money((CHOOSE a \in auth : TRUE).amount) IN
         (IF overSettled(settledTotal, authAmount)
          THEN {Defect("OVER_SETTLEMENT", o.order_id, 0)} ELSE {})
         \cup
         (IF o.status = ORDER_STATUS.SETTLED /\ mismatch(settledTotal, authAmount)
          THEN {Defect("SETTLED_MISMATCH", o.order_id, 0)} ELSE {})
    ELSE IF settledTotal > 0
         THEN {Defect("NO_AUTH_SETTLEMENTS", o.order_id, 0)} ELSE {}

\* the lines printed by fail() over the whole run
auditDefects(db) ==
    duplicateOrderIds(db) \cup orphanRows(db) \cup badAmounts(db)
    \cup UNION {perOrderRules(db, o) : o \in db.orders}

\* variant: a SETTLED order with a mismatch is put back to AUTHORIZED
afterAuditCorrecting(db) ==
    [db EXCEPT !.orders =
        {IF Defect("SETTLED_MISMATCH", o.order_id, 0) \in auditDefects(db)
         THEN [o EXCEPT !.status = ORDER_STATUS.AUTHORIZED] ELSE o : o \in @}]

\* the store after the run: every statement the script prepares is a SELECT
afterAudit(db) == db

(***************************************************************************)
(* State machine: the audit run on a database file.  The file is any store *)
(* the tables can hold, consistent or not.                                 *)
(***************************************************************************)
InitAudit ==
    /\ orders \in OrderTables
    /\ authorizations \in AuthorizationTables
    /\ settlements \in SettlementTables
    /\ last = NoRequest
    /\ scn = 0
    /\ reqs = [r \in Slots |-> IdleReq]

Audit ==
    /\ Install(afterAudit(DB))
    /\ last' = [op |-> "audit", orderId |-> "", amount |-> Num(0), code |-> "",
                status |-> "", hasAvail |-> FALSE, availableToSettle |-> 0,
                defects |-> auditDefects(DB), before |-> DB]
    /\ UNCHANGED <<scn, reqs>>

NextAudit == Audit

SpecAudit == InitAudit /\ [][NextAudit]_vars

(***************************************************************************)
(* State machine: authorize requests in flight.  The handler awaits the    *)
(* provider with fetch(url, {method, headers, body}): no signal, no timer. *)
(* The request waits at pc "calling" until the provider settles the call;  *)
(* the store calls that follow run on the server and complete.             *)
(***************************************************************************)
LiveAuthAmounts == {Num(100000), Num(0)}
LiveProviderResponses == {Reply(200, TRUE, {}), Reply(200, FALSE, {"insufficient"}), NetworkError}

AuthReq(pc, orderId, amount, outcome) ==
    [pc |-> pc, orderId |-> orderId, amount |-> amount, outcome |-> outcome]

\* lines 31-163: normalise, validate, getOrder / createOrder, send the request
AuthorizeBegin(r, orderId, rawCard, requestedAmount) ==
    LET card == normalizedCard(rawCard) IN
    /\ reqs[r].pc = "idle"
    /\ IF validateAuthorize(orderId, card, requestedAmount) # ""
       THEN UNCHANGED <<ledger, reqs>>
       ELSE /\ Install(IF orderMissing(DB, orderId)
                       THEN createOrder(DB, [order_id |-> orderId,
                                             status |-> ORDER_STATUS.PENDING,
                                             card_last4 |-> last4(card.number),
                                             amount |-> toMoney(requestedAmount.v)])
                       ELSE DB)
            /\ SetReq(r, AuthReq("calling", orderId, requestedAmount.v, ""))
    /\ UNCHANGED <<last, scn>>

\* lines 164-196: the awaited fetch settles with reply p; the outcome is mapped
ProviderResponds(r, p) ==
    /\ reqs[r].pc = "calling"
    /\ SetReq(r, [reqs[r] EXCEPT !.pc = "mapped", !.outcome = mapOutcome(callProvider(p))])
    /\ UNCHANGED <<ledger, last, scn>>

\* lines 198-205: await createAuthorization(...)
AuthorizeStore(r) ==
    /\ reqs[r].pc = "mapped"
    /\ Install(createAuthorization(DB, [order_id |-> reqs[r].orderId,
                                        amount |-> toMoney(reqs[r].amount),
                                        outcome |-> reqs[r].outcome]))
    /\ SetReq(r, [reqs[r] EXCEPT !.pc = "stored"])
    /\ UNCHANGED <<last, scn>>

\* lines 207-236: await updateOrderStatus(...); the response is sent
AuthorizeUpdateStatus(r) ==
    /\ reqs[r].pc = "stored"
    /\ Install(updateOrderStatus(DB, reqs[r].orderId,
                                 statusAfter(DB, reqs[r].orderId, reqs[r].outcome)))
    /\ SetReq(r, IdleReq)
    /\ UNCHANGED <<last, scn>>

NextLive ==
    \/ \E r \in Slots, o \in AuthorizeIds, c \in FaultCards, a \in LiveAuthAmounts :
         AuthorizeBegin(r, o, c, a)
    \/ \E r \in Slots, p \in LiveProviderResponses : ProviderResponds(r, p)
    \/ \E r \in Slots : AuthorizeStore(r)
    \/ \E r \in Slots : AuthorizeUpdateStatus(r)
    \/ \E o \in OrderIds, a \in AuthSettleAmounts : Settle(o, a)

\* the continuations of the store calls are run by the event loop once enabled;
\* nothing on the server makes the provider answer
SpecLive ==
    /\ Init
    /\ [][NextLive]_vars
    /\ \A r \in Slots : WF_vars(AuthorizeStore(r)) /\ WF_vars(AuthorizeUpdateStatus(r))

(***************************************************************************)
(* State machine: the adapter of src/db/index.js, which inserts a row per  *)
(* createAuthorization and reads back the row with the greatest            *)
(* created_at.  created_at is datetime('now'), a time in whole seconds:    *)
(* clock is the second of the call, and a call made within the second of   *)
(* the call before it gets the same created_at.  Rows carry their id and   *)
(* created_at; SQLite leaves the order of rows equal under ORDER BY        *)
(* unspecified, so LIMIT 1 returns any one of them.                        *)
(***************************************************************************)
MaxAuthRows == 3

ClockTicks == {0, 1}
InsertAmounts == {100000, 50000}
InsertOutcomes == {"SUCCESS", "INSUFFICIENT_FUNDS"}

\* INSERT INTO authorizations (order_id, provider_token, amount, outcome) VALUES (...)
insertAuthorization(db, row, now) ==
    [db EXCEPT !.authorizations =
        @ \cup {[order_id |-> row.order_id, amount |-> row.amount, outcome |-> row.outcome,
                 id |-> Cardinality(@) + 1, created_at |-> now]}]

\* variant: rows of the same second are told apart by their id
latestAuthorizationsById(db, orderId) ==
    {a \in db.authorizations :
        /\ a.order_id = orderId
        /\ \A b \in db.authorizations :
              b.order_id = orderId =>
                 (createdAt(b) < createdAt(a)
                    \/ (createdAt(b) = createdAt(a) /\ rowid(b) <= rowid(a)))}

\* SELECT * FROM authorizations WHERE order_id = ?
\*   ORDER BY datetime(created_at) DESC LIMIT 1: the rows LIMIT 1 may return
latestAuthorizations(db, orderId) ==
    {a \in db.authorizations :
        /\ a.order_id = orderId
        /\ \A b \in db.authorizations : b.order_id = orderId => createdAt(b) <= createdAt(a)}

clock == IF last.op = "createAuthorization" THEN last.now ELSE 0

\* createAuthorization(row) called tick seconds after the call before it:
\* the insert, then return getAuthorizationByOrderId(order_id)
CreateAuthorization(orderId, amount, outcome, tick) ==
    LET now == clock + tick
        db1 == insertAuthorization(DB, [order_id |-> orderId, amount |-> amount,
                                        outcome |-> outcome], now)
    IN
    /\ Cardinality(authorizations) < MaxAuthRows
    /\ Install(db1)
    /\ \E got \in latestAuthorizations(db1, orderId) :
          last' = [op |-> "createAuthorization", orderId |-> orderId, amount |-> Num(amount),
                   code |-> "", status |-> "", hasAvail |-> FALSE, availableToSettle |-> 0,
                   outcome |-> outcome, now |-> now, tick |-> tick,
                   id |-> Cardinality(authorizations) + 1, got |-> got]
    /\ UNCHANGED <<scn, reqs>>

NextInsert ==
    \E o \in StoreIds, a \in InsertAmounts, oc \in InsertOutcomes, t \in ClockTicks :
        CreateAuthorization(o, a, oc, t)

SpecInsert == Init /\ [][NextInsert]_vars

(***************************************************************************)
(* State machine: requests served one after the other on two orders.       *)
(* ORD-1 is authorized with two cards and two amounts, ORD-2 with one.     *)
(***************************************************************************)
TwoIds == {"ORD-1", "ORD-2"}
TwoCards == {CardA, CardC}
TwoAuthAmounts == {Num(100000), Num(50000)}
TwoSettleAmounts == {Num(50000), Num(100000)}

NextTwo ==
    \/ \E c \in TwoCards, a \in TwoAuthAmounts, p \in ConcProviderResponses :
         Authorize("ORD-1", c, a, p)
    \/ \E p \in ConcProviderResponses : Authorize("ORD-2", CardA, Num(100000), p)
    \/ \E o \in TwoIds, a \in TwoSettleAmounts : Settle(o, a)

SpecTwo == Init /\ [][NextTwo]_vars

(***************************************************************************)
(* State machine: GET /api/orders/next on a store that already holds       *)
(* orders.  An order id is a prefix and a body; a body of digits is kept   *)
(* as its count of leading zeros and its value.  A value is hi * 2^53 + lo *)
(* with hi in {0, 1} and lo small, so that the ids around 2^53, where a    *)
(* JavaScript number stops holding every integer, can be written.          *)
(***************************************************************************)
Small(n) == [hi |-> 0, lo |-> n]
Big(d) == [hi |-> 1, lo |-> d]

\* "ORD-" followed by zeros, then the decimal digits of v
OrdId(zeros, v) == [prefix |-> "ORD-", digits |-> TRUE, zeros |-> zeros, v |-> v, text |-> ""]
\* any other id: a prefix and what follows it
TextId(prefix, text) ==
    [prefix |-> prefix, digits |-> FALSE, zeros |-> 0, v |-> Small(0), text |-> text]

\* ORD-5, ORD-1001, ORD-1002, ORD-001003, ORD-WH-DEMO-001, ord-2000, ORD-,
\* ORD-9007199254740992 and ORD-9007199254740993
NextIds ==
    {OrdId(0, Small(5)), OrdId(0, Small(1001)), OrdId(0, Small(1002)),
     OrdId(2, Small(1003)), TextId("ORD-", "WH-DEMO-001"),
     [OrdId(0, Small(2000)) EXCEPT !.prefix = "ord-"], TextId("ORD-", ""),
     OrdId(0, Big(0)), OrdId(0, Big(1))}

\* a > b on numbers
greater(a, b) == a.hi > b.hi \/ (a.hi = b.hi /\ a.lo > b.lo)

\* the double nearest to an integer: every integer up to 2^53 is a double,
\* above it only the even ones are, and a tie goes to the even mantissa
toDouble(x) ==
    IF x.hi = 0 \/ x.lo <= 0 \/ x.lo % 2 = 0 THEN x
    ELSE IF (x.lo - 1) % 4 = 0 THEN [x EXCEPT !.lo = @ - 1]
    ELSE [x EXCEPT !.lo = @ + 1]

\* maxNum + 1 on doubles
plusOne(x) == toDouble([x EXCEPT !.lo = @ + 1])

\* order_id LIKE 'ORD-%': LIKE does not distinguish the case of ASCII letters
likeORD(id) == id.prefix \in {"ORD-", "ord-"}

\* /^ORD-(\d+)$/.exec(r.order_id)
matchesORDDigits(id) == id.prefix = "ORD-" /\ id.digits

\* the loop over rows: the largest Number(m[1]) above 1000, 1000 without one
maxNumOf(rows) ==
    LET nums == {toDouble(r.v) : r \in {q \in rows : matchesORDDigits(q)}}
        above == {n \in nums : greater(n, Small(1000))}
    IN  IF above = {} THEN Small(1000)
        ELSE CHOOSE n \in above : \A k \in above : ~greater(k, n)

getNextOrderIdORD(db) ==
    LET rows == {o.order_id : o \in {q \in db.orders : likeORD(q.order_id)}}
        next == plusOne(maxNumOf(rows))
    IN  OrdId(0, next)

\* the orders of a store holding the given ids, each as authorize leaves it
\* after an approved request
OrdersOf(ids) ==
    {[order_id |-> i, status |-> ORDER_STATUS.AUTHORIZED, amount |-> 100000,
      card_last4 |-> last4(CardA.number)] : i \in ids}

AuthorizationsOf(ids) ==
    {[order_id |-> i, amount |-> 100000, outcome |-> AUTH_OUTCOME.SUCCESS] : i \in ids}

InitNextId ==
    /\ \E ids \in SUBSET NextIds :
        /\ orders = OrdersOf(ids)
        /\ authorizations = AuthorizationsOf(ids)
    /\ settlements = <<>>
    /\ last = NoRequest
    /\ scn = 0
    /\ reqs = [r \in Slots |-> IdleReq]

\* GET /api/orders/next: res.json({ orderId, amount })
OrderNext ==
    /\ last' = [op |-> "orderNext", orderId |-> getNextOrderIdORD(DB)]
    /\ UNCHANGED <<orders, authorizations, settlements, scn, reqs>>

NextNextId == OrderNext

SpecNextId == InitNextId /\ [][NextNextId]_vars

(***************************************************************************)
(* Properties                                                              *)
(***************************************************************************)
SuccessAuths(auths, o) == {a \in auths : a.order_id = o /\ a.outcome = "SUCCESS"}
\* amount of the order's SUCCESS authorization, 0 when there is none
AuthorizedAmount(auths, o) ==
    IF SuccessAuths(auths, o) = {} THEN 0 ELSE (CHOOSE a \in SuccessAuths(auths, o) : TRUE).amount
SettledTotal(rows, o) == SumRows(rows, o)
\* authorized amount minus the sum of SUCCESS settlements, in the current state
Available(o) == AuthorizedAmount(authorizations, o) - SettledTotal(settlements, o)
OrderExists(o) == \E ord \in orders : ord.order_id = o
StatusOf(ords, o) == (CHOOSE ord \in ords : ord.order_id = o).status
NormalId(o) == IF o = " " THEN "" ELSE o
ValidAmount(a) == a.k = "num" /\ a.v > 0 /\ a.v % 10 = 0
\* amount > x; no comparison holds of a value that is not a number
Greater(a, x) == a.k = "num" /\ a.v > x
\* the order a request aims at
Target == NormalId(last.orderId)
\* a step that serves a settle request: the request is last'.orderId, last'.amount,
\* the state it is served in is the unprimed one
SettleStep == last'.op = "settle"

\* C1: for every order, the sum of its SUCCESS settlements is at most the amount
\* of its current SUCCESS authorization, in every reachable state.
C1_SettledWithinAuthorized ==
    \A o \in OrderIds : \A a \in SuccessAuths(authorizations, o) :
        SettledTotal(settlements, o) <= a.amount

\* C2: two settle requests for one order never both pass the amount <= available
\* check against the same stale sum and together record SUCCESS settlements
\* that exceed the authorized amount.
C2_NoJointOverSettle ==
    \A r1 \in Slots, r2 \in Slots :
        ~ /\ r1 # r2
          /\ reqs[r1].pc \in {"created", "updated"}
          /\ reqs[r2].pc \in {"created", "updated"}
          /\ reqs[r1].orderId = reqs[r2].orderId
          /\ reqs[r1].auth = reqs[r2].auth
          /\ reqs[r1].auth = getAuthorizationByOrderId(DB, reqs[r1].orderId)
          /\ reqs[r1].settledSoFar = reqs[r2].settledSoFar
          /\ SettledTotal(settlements, reqs[r1].orderId)
                > AuthorizedAmount(authorizations, reqs[r1].orderId)

C4_NoAuthNothingSettled ==
    \A o \in OrderIds :
        SuccessAuths(authorizations, o) = {} => SettledTotal(settlements, o) = 0

\* the preconditions of settle in the order the contract lists them
SettlePreconditions ==
    <<"BAD_REQUEST", "INVALID_AMOUNT", "INVALID_AMOUNT_PRECISION", "ORDER_NOT_FOUND",
      "NO_APPROVED_AUTH", "AMOUNT_EXCEEDS_AVAILABLE">>

Violates(code, o, a) ==
    CASE code = "BAD_REQUEST" -> NormalId(o) = "" \/ a.k # "num"
      [] code = "INVALID_AMOUNT" -> a.k = "num" /\ a.v <= 0
      [] code = "INVALID_AMOUNT_PRECISION" -> a.k = "num" /\ a.v % 10 # 0
      [] code = "ORDER_NOT_FOUND" -> ~OrderExists(NormalId(o))
      [] code = "NO_APPROVED_AUTH" -> SuccessAuths(authorizations, NormalId(o)) = {}
      [] code = "AMOUNT_EXCEEDS_AVAILABLE" -> Greater(a, Available(NormalId(o)))

FirstViolated(o, a) ==
    LET F == {i \in 1..Len(SettlePreconditions) : Violates(SettlePreconditions[i], o, a)}
    IN IF F = {} THEN "OK"
       ELSE SettlePreconditions[CHOOSE i \in F : \A j \in F : i <= j]

\* C5: settle returns the code of the first precondition, in the listed order,
\* that the request violates in the state it is served in (OK when none is).
C5_FirstFailingCode ==
    [][SettleStep => last'.code = FirstViolated(last'.orderId, last'.amount)]_vars

\* a request with three decimals for an unknown order is answered with the precision code
C5_Witness ==
    /\ last.op = "settle"
    /\ last.orderId = "ORD-9"
    /\ last.amount = Num(15)
    /\ last.code = "INVALID_AMOUNT_PRECISION"
    /\ orders # {}

C7_ExceedsIffGreater ==
    [][(SettleStep /\ OrderExists(Target') /\ SuccessAuths(authorizations, Target') # {})
          => /\ (last'.code = "AMOUNT_EXCEEDS_AVAILABLE") <=> Greater(last'.amount, Available(Target'))
             /\ last'.code = "AMOUNT_EXCEEDS_AVAILABLE"
                  => last'.hasAvail /\ last'.availableToSettle = Available(Target')]_vars

\* C7 amended: the same for an amount that passes validation (finite, > 0, at most
\* two decimal digits).
C7_ExceedsIffGreaterValid ==
    [][(SettleStep /\ ValidAmount(last'.amount) /\ OrderExists(Target')
                   /\ SuccessAuths(authorizations, Target') # {})
          => /\ (last'.code = "AMOUNT_EXCEEDS_AVAILABLE") <=> Greater(last'.amount, Available(Target'))
             /\ last'.code = "AMOUNT_EXCEEDS_AVAILABLE"
                  => last'.hasAvail /\ last'.availableToSettle = Available(Target')]_vars

C7_Witness ==
    /\ last.op = "settle"
    /\ last.amount = Num(60000)
    /\ last.code = "AMOUNT_EXCEEDS_AVAILABLE"
    /\ last.hasAvail
    /\ last.availableToSettle = 40000

\* C8: a successful settle appends exactly one settlement, with outcome SUCCESS and
\* the requested amount, and sets the status to SETTLED iff available - amount = 0,
\* else to AUTHORIZED: the full available amount gives SETTLED, one cent less AUTHORIZED.
C8_AppendAndStatus ==
    [][(SettleStep /\ last'.code = "OK")
          => /\ settlements' = Append(settlements, [order_id |-> Target', amount |-> last'.amount.v,
                                                    outcome |-> "SUCCESS"])
             /\ StatusOf(orders', Target')
                  = (IF Available(Target') - last'.amount.v = 0 THEN "SETTLED" ELSE "AUTHORIZED")
             /\ last'.status = StatusOf(orders', Target')
             /\ last'.amount.v = Available(Target') => last'.status = "SETTLED"
             /\ last'.amount.v = Available(Target') - 10 => last'.status = "AUTHORIZED"]_vars

\* 59.99 settled with 60.00 available: one cent is left and the order stays AUTHORIZED
C8_Witness ==
    /\ last.op = "settle"
    /\ last.code = "OK"
    /\ last.amount = Num(59990)
    /\ last.status = "AUTHORIZED"
    /\ last.availableToSettle = 10
    /\ Len(settlements) = 2

\* C9: after a successful settlement of amount a the returned availableToSettle is the
\* available amount before the call minus a, and the sum of SUCCESS settlements plus
\* availableToSettle equals the authorized amount.
C9_AvailableDecreasesByAmount ==
    [][(SettleStep /\ last'.code = "OK")
          => /\ last'.hasAvail
             /\ last'.availableToSettle = Available(Target') - last'.amount.v
             /\ SettledTotal(settlements', Target') + last'.availableToSettle
                  = AuthorizedAmount(authorizations', Target')]_vars

C9_Witness ==
    /\ last.op = "settle"
    /\ last.code = "OK"
    /\ last.amount = Num(60000)
    /\ last.availableToSettle = 0
    /\ SettledTotal(settlements, "ORD-1") = 100000

\* C10: from a SUCCESS authorization of 100.00 with no settlements, settle 40.00 gives
\* {AUTHORIZED, 60.00}, then settle 60.00 gives {SETTLED, 0.00}, then settle 0.01 is
\* rejected with AMOUNT_EXCEEDS_AVAILABLE and availableToSettle 0.00, two settlements
\* being recorded at the end.
C10_Scenario ==
    /\ scn = 1 => /\ last.code = "OK"
                  /\ last.status = "AUTHORIZED"
                  /\ last.availableToSettle = 60000
    /\ scn = 2 => /\ last.code = "OK"
                  /\ last.status = "SETTLED"
                  /\ last.availableToSettle = 0
    /\ scn = 3 => /\ last.code = "AMOUNT_EXCEEDS_AVAILABLE"
                  /\ last.hasAvail
                  /\ last.availableToSettle = 0
                  /\ settlements = <<[order_id |-> "ORD-1", amount |-> 40000, outcome |-> "SUCCESS"],
                                     [order_id |-> "ORD-1", amount |-> 60000, outcome |-> "SUCCESS"]>>

C10_Witness == scn = 3 /\ last.amount = Num(10) /\ last.op = "settle"

\* C11: a settle request with a valid amount for an existing order whose current
\* authorization is missing or has an outcome other than SUCCESS is rejected with
\* NO_APPROVED_AUTH and records nothing, whatever the order's status (the store
\* calls of the request succeeding); no settle request records a settlement for
\* such an order.
C11_NoApprovedAuthRejected ==
    [][SettleStep =>
          /\ (ValidAmount(last'.amount) /\ OrderExists(Target') /\ last'.fault = NoFault
                 /\ SuccessAuths(authorizations, Target') = {})
               => (last'.code = "NO_APPROVED_AUTH" /\ UNCHANGED ledger)
          /\ settlements' # settlements => SuccessAuths(authorizations, Target') # {}]_vars

\* the order is SETTLED, a declined authorization has replaced the approved one
\* (the status update of that authorize request failed), and settle is refused
C11_Witness ==
    /\ last.op = "settle"
    /\ last.code = "NO_APPROVED_AUTH"
    /\ last.amount = Num(10)
    /\ \E a \in authorizations : a.order_id = Target /\ a.outcome = "INSUFFICIENT_FUNDS"
    /\ \E ord \in orders : ord.order_id = Target /\ ord.status = "SETTLED"

\* a step that serves an authorize request observed in full
AuthorizeStep == last'.op = "authorize"
\* the request passed validation
PassedValidation(l) == l.code \notin {"BAD_REQUEST", "INVALID_AMOUNT"}
\* the Reason text of a reply contains the word, in whatever case it is written
Mentions(reason, w) == w \in reason \/ (w = "insufficient" /\ "Insufficient" \in reason)
\* the outcome the contract gives for a provider reply
ClaimedOutcome(p) ==
    IF ~p.net THEN "SERVER_ERROR"
    ELSE IF p.status = 200
    THEN IF p.Success THEN "SUCCESS"
         ELSE IF Mentions(p.Reason, "insufficient") THEN "INSUFFICIENT_FUNDS"
         ELSE IF Mentions(p.Reason, "incorrect") \/ Mentions(p.Reason, "invalid")
              THEN "INCORRECT_DETAILS"
         ELSE "SERVER_ERROR"
    ELSE IF p.status = 402 THEN "INSUFFICIENT_FUNDS"
    ELSE IF p.status = 422 THEN "INCORRECT_DETAILS"
    ELSE "SERVER_ERROR"

\* C12: authorize maps every provider reply to the outcome the contract lists for it
\* (network failure, status 200 by Success and Reason, 402, 422, any other status),
\* and that outcome is the one stored.
C12_MapsEveryResponse ==
    (last.op = "authorize" /\ PassedValidation(last))
        => /\ last.outcome = ClaimedOutcome(last.p)
           /\ \A a \in authorizations : a.order_id = last.orderId => a.outcome = last.outcome

\* rounding of a non-negative amount to cents
Cents(v) == ((v + 5) \div 10) * 10
AuthRows(o) == {a \in authorizations : a.order_id = o}
\* the last four digits of a card number that has at least four
LastFourDigits(number) ==
    LET d == SelectSeq(number, IsDigit) IN SubSeq(d, Len(d) - 3, Len(d))
EmptyDB == [orders |-> {}, authorizations |-> {}, settlements |-> <<>>]

\* C13: after an authorize request that passes validation has run to its end, the
\* order's status is AUTHORIZED if the outcome is SUCCESS and ERROR for every other
\* outcome, whatever the status was before (none, PENDING, AUTHORIZED, SETTLED, ERROR).
C13_StatusFollowsOutcome ==
    (last.op = "authorize" /\ PassedValidation(last) /\ last.fault = NoFault)
        => /\ OrderExists(last.orderId)
           /\ StatusOf(orders, last.orderId)
                = (IF last.outcome = "SUCCESS" THEN "AUTHORIZED" ELSE "ERROR")

\* a declined re-authorization of a SETTLED order
C13_Witness ==
    /\ last.op = "authorize"
    /\ last.fault = NoFault
    /\ last.prev = "SETTLED"
    /\ last.outcome = "INSUFFICIENT_FUNDS"
    /\ StatusOf(orders, "ORD-1") = "ERROR"

Malformed(l) == l.orderId = "" \/ l.card.k # "obj" \/ l.amount.k = "str"
BadAmount(l) == l.amount.k = "nan" \/ (l.amount.k = "num" /\ l.amount.v <= 0)

\* C15: an authorize request without an order id, without a card or with a
\* non-numeric amount fails with a validation error, one with a non-positive or
\* non-finite amount fails with INVALID_AMOUNT; either way nothing is written and
\* the provider is not called.
C15_InvalidRequestsRejected ==
    [][AuthorizeStep =>
          /\ Malformed(last')
               => /\ last'.code \in {"BAD_REQUEST", "INVALID_AMOUNT"}
                  /\ UNCHANGED ledger
                  /\ last'.calls = 0
          /\ (~Malformed(last') /\ BadAmount(last'))
               => /\ last'.code = "INVALID_AMOUNT"
                  /\ UNCHANGED ledger
                  /\ last'.calls = 0]_vars

FailureOutcomes == {"INSUFFICIENT_FUNDS", "INCORRECT_DETAILS", "SERVER_ERROR"}

\* C16 as stated: when authorize ends in a failure outcome the returned code is that
\* outcome, the value stored in the authorization record, and the status is ERROR.
C16_FailureCodeIsOutcome ==
    (last.op = "authorize" /\ last.outcome \in FailureOutcomes)
        => /\ last.code = last.outcome
           /\ \A a \in AuthRows(last.orderId) : a.outcome = last.outcome
           /\ StatusOf(orders, last.orderId) = "ERROR"

\* C16 amended: the returned code is the outcome for INSUFFICIENT_FUNDS and
\* INCORRECT_DETAILS and PROVIDER_ERROR for the outcome SERVER_ERROR; the record
\* stores the outcome and the status is ERROR.
C16_FailureCodeOrProviderError ==
    (last.op = "authorize" /\ last.outcome \in FailureOutcomes)
        => /\ last.code = (IF last.outcome = "SERVER_ERROR" THEN "PROVIDER_ERROR"
                           ELSE last.outcome)
           /\ \A a \in AuthRows(last.orderId) : a.outcome = last.outcome
           /\ StatusOf(orders, last.orderId) = "ERROR"

\* a network failure: SERVER_ERROR is stored, PROVIDER_ERROR is returned
C16_Witness ==
    /\ last.op = "authorize"
    /\ last.p = NetworkError
    /\ last.code = "PROVIDER_ERROR"
    /\ AuthRows("ORD-1") = {[order_id |-> "ORD-1", amount |-> 100000, outcome |-> "SERVER_ERROR"]}
    /\ StatusOf(orders, "ORD-1") = "ERROR"

\* the columns of an order other than its status
OrderData(ords) == {[order_id |-> o.order_id, amount |-> o.amount, card_last4 |-> o.card_last4] :
                       o \in ords}
\* the request gets as far as creating the order
Creates(l) ==
    PassedValidation(l) /\ l.prev = "" /\ l.fault \notin {"getOrder", "createOrder"}

\* C17: authorize creates an order only when none with that id exists, with status
\* PENDING (seen when the request stops before its status update), the requested
\* amount in cents and the last four digits of the card number; no two orders ever
\* share an id.
C17_CreatesOnlyWhenAbsent ==
    [][AuthorizeStep =>
          /\ ~Creates(last') => OrderData(orders') = OrderData(orders)
          /\ Creates(last')
               => \E o \in orders' :
                     /\ orders' \ {o} = orders
                     /\ o.order_id = last'.orderId
                     /\ o.amount = Cents(last'.amount.v)
                     /\ last'.card.k = "obj" => o.card_last4 = LastFourDigits(last'.card.number)
                     /\ last'.fault # NoFault => o.status = "PENDING"
          /\ \A o1 \in orders', o2 \in orders' : o1.order_id = o2.order_id => o1 = o2]_vars

\* the request stopped after creating the order: the row is there as created
C17_Witness ==
    /\ last.op = "authorize"
    /\ last.fault = "createAuthorization"
    /\ last.prev = ""
    /\ orders = {[order_id |-> "ORD-1", status |-> "PENDING", amount |-> 100000,
                  card_last4 |-> <<"1", "2", "3", "4">>]}

\* C18: two authorize requests that differ only in the digits of the card number
\* before the last four and in the CVV, and get the same provider reply, leave the
\* same orders, authorizations and settlements.
C18_CardNotPersisted ==
    \A o \in OrderIds, a \in AuthAmounts, p \in AuthProviderResponses :
        authorize(DB, o, CardA, a, p, NoFault).db = authorize(DB, o, CardB, a, p, NoFault).db

\* the first request for the order was made with the one card and the ledger is
\* the one the other card gives
C18_Witness ==
    /\ last.op = "authorize"
    /\ last.card = CardA
    /\ last.prev = ""
    /\ last.code = "OK"
    /\ DB = authorize(EmptyDB, "ORD-1", CardB, Num(100000), Reply(200, TRUE, {}), NoFault).db
    /\ \E o \in orders : o.card_last4 = <<"1", "2", "3", "4">>

\* the provider call failed: no reply, or a reply with status 200 and a body that
\* neither approves nor gives a known decline reason
ProviderCallFailed(p) == ~p.net \/ (p.status = 200 /\ ClaimedOutcome(p) = "SERVER_ERROR")

\* C19: every authorize request that passes validation calls the provider exactly
\* once, and when that call fails an authorization record with outcome SERVER_ERROR
\* is stored for the order.
C19_FailureRecordedOnce ==
    (last.op = "authorize" /\ PassedValidation(last))
        => /\ last.calls = 1
           /\ ProviderCallFailed(last.p)
                => AuthRows(last.orderId)
                     = {[order_id |-> last.orderId, amount |-> Cents(last.amount.v),
                         outcome |-> "SERVER_ERROR"]}

C19_Witness ==
    /\ last.op = "authorize"
    /\ last.p = NetworkError
    /\ last.calls = 1
    /\ \E a \in authorizations : a.order_id = "ORD-1" /\ a.outcome = "SERVER_ERROR"

AuthorizeCodes == {"OK", "BAD_REQUEST", "INVALID_AMOUNT", "INSUFFICIENT_FUNDS",
                   "INCORRECT_DETAILS", "PROVIDER_ERROR", "SERVER_ERROR"}
SettleCodes == {"OK", "BAD_REQUEST", "INVALID_AMOUNT", "INVALID_AMOUNT_PRECISION",
                "ORDER_NOT_FOUND", "NO_APPROVED_AUTH", "AMOUNT_EXCEEDS_AVAILABLE",
                "SERVER_ERROR"}

\* C20: every authorize and settle request ends with a result, success or one of
\* the codes of its handler, also when a store call or the provider call fails: a
\* store failure is answered with SERVER_ERROR, a provider failure with PROVIDER_ERROR.
C20_AlwaysAResult ==
    /\ last.op = "authorize" => last.code \in AuthorizeCodes
    /\ last.op = "settle" => last.code \in SettleCodes
    /\ last.op \in {"authorize", "settle"}
         => (last.code = "SERVER_ERROR" => last.fault # NoFault)
    /\ (last.op = "authorize" /\ PassedValidation(last) /\ last.fault = NoFault /\ ~last.p.net)
         => last.code = "PROVIDER_ERROR"

\* the insert of the authorization failed after the order was created
C20_Witness ==
    /\ last.op = "authorize"
    /\ last.fault = "createAuthorization"
    /\ last.code = "SERVER_ERROR"
    /\ orders # {}
    /\ authorizations = {}

\* C21: every authorize request that passed validation and is waiting for the
\* provider eventually completes, its authorization persisted, whether or not
\* the provider ever answers.
C21_AuthorizeCompletes ==
    \A r \in Slots :
        (reqs[r].pc = "calling") ~> (reqs[r].pc = "idle" /\ authorizations # {})


DetailsStep == last'.op = "details"

\* C22: a details request changes no order, authorization or settlement, and
\* a details request that follows a details request for the same order
\* returns the same result and the same availableToSettle.
C22_DetailsReadOnlyRepeatable ==
    [][DetailsStep =>
          /\ ledger' = ledger
          /\ last'.again =>
                /\ last'.code = last.code
                /\ last'.hasAvail = last.hasAvail
                /\ last'.availableToSettle = last.availableToSettle]_vars

\* a repeated details request for an order with 60.00 left of 100.00
C22_Witness ==
    /\ last.op = "details" /\ last.again /\ last.code = "OK"
    /\ last.availableToSettle = 60000
    /\ Len(settlements) = 1

\* C23: the availableToSettle of a details response is the amount of the
\* order's SUCCESS authorization (0 without one) minus the sum of its
\* SUCCESS settlements.
C23_DetailsAvailable ==
    (last.op = "details" /\ last.code = "OK") =>
        last.availableToSettle = Available(last.orderId)


Audited == last.op = "audit"
Reported(kind, o) == \E d \in last.defects : d.kind = kind /\ d.order_id = o
SuccessSum(o) == SettledTotal(settlements, o)
HasSuccessAuth(o) == SuccessAuths(authorizations, o) # {}

\* C24: after an audit, every SETTLED order with a SUCCESS authorization
\* whose SUCCESS settlements do not sum to the authorized amount has a
\* mismatch defect, and no SETTLED order whose sum equals it has one.
C24_SettledMismatchReported ==
    Audited =>
        \A ord \in orders :
            (ord.status = "SETTLED" /\ HasSuccessAuth(ord.order_id)) =>
                (Reported("SETTLED_MISMATCH", ord.order_id)
                    <=> SuccessSum(ord.order_id) # AuthorizedAmount(authorizations, ord.order_id))

\* 99.99 settled against 100.00 authorized on a SETTLED order, reported, next
\* to a SETTLED order settled in full, not reported
C24_Witness ==
    /\ Audited
    /\ \E o1, o2 \in orders :
        /\ o1.status = "SETTLED" /\ o2.status = "SETTLED"
        /\ AuthorizedAmount(authorizations, o1.order_id) = 100000
        /\ SuccessSum(o1.order_id) = 99990
        /\ Reported("SETTLED_MISMATCH", o1.order_id)
        /\ HasSuccessAuth(o2.order_id)
        /\ SuccessSum(o2.order_id) = AuthorizedAmount(authorizations, o2.order_id)
        /\ ~Reported("SETTLED_MISMATCH", o2.order_id)

\* C25: after an audit, an order has an over-settlement defect exactly when
\* it has a SUCCESS authorization and its SUCCESS settlements sum to more
\* than the authorized amount; an order without SUCCESS authorization whose
\* sum is not zero has a defect naming it (the no-authorization defect when
\* the sum is positive); each defect names its own order.
C25_OverSettlementReported ==
    Audited =>
        \A ord \in orders :
            LET o == ord.order_id IN
            /\ Reported("OVER_SETTLEMENT", o)
                  <=> (HasSuccessAuth(o) /\ SuccessSum(o) > AuthorizedAmount(authorizations, o))
            /\ (~HasSuccessAuth(o) /\ SuccessSum(o) # 0) =>
                  (Reported("NO_AUTH_SETTLEMENTS", o) \/ Reported("SETTLEMENT_AMOUNT_INVALID", o))
            /\ (~HasSuccessAuth(o) /\ SuccessSum(o) > 0) => Reported("NO_AUTH_SETTLEMENTS", o)

\* two over-settled orders, each reported, or an over-settled order next to
\* one settled without authorization
C25_Witness ==
    /\ Audited
    /\ Reported("OVER_SETTLEMENT", "ORD-1")
    /\ SuccessSum("ORD-1") > AuthorizedAmount(authorizations, "ORD-1")
    /\ Reported("NO_AUTH_SETTLEMENTS", "ORD-2")
    /\ ~HasSuccessAuth("ORD-2")

\* C26: an audit leaves every order, authorization and settlement as it was.
C26_AuditChangesNothing ==
    [][last'.op = "audit" => ledger' = ledger]_vars

\* an audit that found a mismatch and an over-settlement
C26_Witness ==
    /\ Audited
    /\ \E d \in last.defects : d.kind = "SETTLED_MISMATCH"
    /\ \E d \in last.defects : d.kind = "OVER_SETTLEMENT"
    /\ DB = last.before


\* C27: no step removes or changes a settlement already recorded, and no
\* step removes an order.
C27_AppendOnly ==
    [][/\ Len(settlements') >= Len(settlements)
       /\ \A i \in 1..Len(settlements) : settlements'[i] = settlements[i]
       /\ \A o \in orders : \E o2 \in orders' : o2.order_id = o.order_id]_vars

\* two settlements recorded, both kept by the authorize request that followed
C27_Witness ==
    /\ Len(settlements) = 2
    /\ last.op = "authorize" /\ last.code # "BAD_REQUEST"
    /\ OrderExists("ORD-1")


\* C28: a settle request is answered INVALID_AMOUNT_PRECISION exactly when its
\* amount is finite, positive and has more than two decimal digits.
C28_PrecisionExactlyExcessDecimals ==
    (last.op = "settle" /\ NormalId(last.orderId) # "") =>
        (last.code = "INVALID_AMOUNT_PRECISION"
            <=> (last.amount.k = "num" /\ last.amount.v > 0 /\ last.amount.v % 10 # 0))


TwoDecimals(v) == v % 10 = 0

\* C29: every amount stored on an order, an authorization or a settlement,
\* and every availableToSettle returned by a request, has at most two decimal
\* digits.
C29_TwoDecimalsEverywhere ==
    /\ \A o \in orders : TwoDecimals(o.amount)
    /\ \A a \in authorizations : TwoDecimals(a.amount)
    /\ \A i \in 1..Len(settlements) : TwoDecimals(settlements[i].amount)
    /\ last.hasAvail => TwoDecimals(last.availableToSettle)

\* an authorization requested for 0.004 and approved, stored as 0.00
C29_Witness ==
    /\ last.op = "authorize" /\ last.amount = Num(4) /\ last.code = "OK"
    /\ \E a \in authorizations : a.order_id = last.orderId /\ a.amount = 0


StoreSum(o) == sumSettlementsForOrder(DB, o)
MemorySum(o) == memorySumSettlementsForOrder(DB, o)
NoRowsOf(o) == \A i \in 1..Len(settlements) : settlements[i].order_id # o

\* what recording the settlement of last' adds to the sum of order o
Added(o) ==
    IF last'.orderId = o /\ last'.outcome = "SUCCESS" THEN last'.amount.v ELSE 0

\* C30: sumSettlementsForOrder, of either store, is 0 for an order without
\* settlements, grows by the amount when a SUCCESS settlement of the order is
\* recorded, and is not changed by an EXCEEDS_AUTH settlement or by a
\* settlement of another order.
C30_SumOfSuccessOnly ==
    [][last'.op = "createSettlement" =>
          \A o \in StoreIds :
              /\ NoRowsOf(o) => (StoreSum(o) = 0 /\ MemorySum(o) = 0)
              /\ StoreSum(o)' = StoreSum(o) + Added(o)
              /\ MemorySum(o)' = MemorySum(o) + Added(o)]_vars

\* C31: the row createAuthorization returns, read back by
\* getAuthorizationByOrderId, is the row it has just created.
C31_ReturnsTheRowCreated ==
    last.op = "createAuthorization" =>
        /\ last.got.id = last.id
        /\ last.got.amount = last.amount.v
        /\ last.got.outcome = last.outcome

\* C32: in every state reached from the empty store by authorize and settle
\* requests, the audit reports no defect of any kind.
C32_AuditFindsNothing == auditDefects(DB) = {}

NoRequestInProgress == \A r \in Slots : reqs[r].pc = "idle"

\* C33: when no request is in progress, the status of every order agrees
\* with its authorization: AUTHORIZED or SETTLED only with outcome SUCCESS,
\* ERROR only with a failure outcome, PENDING only without SUCCESS.
C33_StatusAgreesWithAuthorization ==
    NoRequestInProgress =>
        \A o \in orders :
            /\ o.status \in {"AUTHORIZED", "SETTLED"} =>
                  (AuthRows(o.order_id) # {}
                     /\ \A a \in AuthRows(o.order_id) : a.outcome = "SUCCESS")
            /\ o.status = "ERROR" =>
                  (AuthRows(o.order_id) # {}
                     /\ \A a \in AuthRows(o.order_id) : a.outcome \in FailureOutcomes)
            /\ o.status = "PENDING" => SuccessAuths(authorizations, o.order_id) = {}

\* the authorization rows settle may read for order o, and what it does with them
SettleReads(o) == latestAuthorizations(DB, o)
AuditFinds(o) == latestSuccessAuthStmt(DB, o)

\* C34: for every order, the audit finds a SUCCESS authorization exactly when
\* settle does not answer NO_APPROVED_AUTH, and then the amount the audit
\* compares against is the authorized amount settle uses.
C34_AuditAndSettleAgree ==
    \A o \in StoreIds :
        /\ SettleReads(o) = {} => (AuditFinds(o) = {} /\ noApprovedAuth({}))
        /\ \A got \in SettleReads(o) :
              /\ AuditFinds(o) # {} <=> ~noApprovedAuth({got})
              /\ \A a \in AuditFinds(o) : money(a.amount) = availableOf(got, 0)

\* C35: a details request that directly follows an accepted settle request
\* for the same order returns the availableToSettle and the order status the
\* settle response gave.
C35_DetailsAfterSettle ==
    [][(/\ last.op = "settle" /\ last.code = "OK"
        /\ last'.op = "details" /\ last'.orderId = NormalId(last.orderId)) =>
          /\ last'.code = "OK"
          /\ last'.availableToSettle = last.availableToSettle
          /\ last'.status = last.status]_vars

\* details read after the second settlement, 0.01 left on an order whose row
\* was created with another amount than the one authorized
C35_Witness ==
    /\ last.op = "details" /\ ~last.again /\ last.code = "OK"
    /\ last.availableToSettle = 10 /\ last.status = "AUTHORIZED"
    /\ Len(settlements) = 2
    /\ \E o \in orders : o.order_id = last.orderId /\ o.amount = 0

\* C36: a settle request for an order whose status is SETTLED is rejected,
\* leaves the store as it is, and the status stays SETTLED.
C36_SettledAbsorbsSettle ==
    [][(SettleStep /\ OrderExists(NormalId(last'.orderId))
           /\ StatusOf(orders, NormalId(last'.orderId)) = "SETTLED") =>
          /\ last'.code # "OK"
          /\ ledger' = ledger
          /\ StatusOf(orders', NormalId(last'.orderId)) = "SETTLED"]_vars

\* 0.01 refused, 0.00 available, on the order settled in full
C36_Witness ==
    /\ last.op = "settle" /\ last.amount = Num(10) /\ last.prev = "SETTLED"
    /\ last.code = "AMOUNT_EXCEEDS_AVAILABLE" /\ last.availableToSettle = 0
    /\ Len(settlements) = 1
    /\ StatusOf(orders, "ORD-1") = "SETTLED"

OrderRow(ords, o) == CHOOSE ord \in ords : ord.order_id = o
OtherOrders(ords, o) == {ord \in ords : ord.order_id # o}
OtherAuths(auths, o) == {a \in auths : a.order_id # o}
RowsOf(rows, o) == SelectSeq(rows, LAMBDA s : s.order_id = o)

\* C37: an authorize request for an order that exists leaves the amount and
\* the card suffix of its row, every settlement, and every other order and
\* its authorization as they were; it adds no order row.
C37_AuthorizeFrame ==
    [][(AuthorizeStep /\ OrderExists(last'.orderId)) =>
          LET o == last'.orderId IN
          /\ {ord.order_id : ord \in orders'} = {ord.order_id : ord \in orders}
          /\ \A ord \in orders' :
                ord.order_id = o =>
                   /\ ord.amount = OrderRow(orders, o).amount
                   /\ ord.card_last4 = OrderRow(orders, o).card_last4
          /\ OtherOrders(orders', o) = OtherOrders(orders, o)
          /\ OtherAuths(authorizations', o) = OtherAuths(authorizations, o)
          /\ settlements' = settlements]_vars

\* ORD-1, created for 100.00 with the card ending 1234, authorized again for
\* 50.00, next to ORD-2 authorized and settled
C37_Witness ==
    /\ last.op = "authorize" /\ last.orderId = "ORD-1" /\ last.code = "OK"
    /\ last.amount = Num(50000)
    /\ OrderExists("ORD-1") /\ OrderRow(orders, "ORD-1").amount = 100000
    /\ \E a \in authorizations : a.order_id = "ORD-1" /\ a.amount = 50000
    /\ OrderExists("ORD-2") /\ StatusOf(orders, "ORD-2") = "SETTLED"
    /\ Len(RowsOf(settlements, "ORD-2")) = 1

\* C38: an accepted settle request appends one SUCCESS settlement of a
\* positive amount for its order, sets the status of that order to
\* AUTHORIZED or SETTLED, and leaves every authorization, the other columns
\* of the order, every other order and the settlements recorded before as
\* they were.
C38_SettleFrame ==
    [][(SettleStep /\ last'.code = "OK") =>
          LET o == NormalId(last'.orderId) IN
          /\ authorizations' = authorizations
          /\ Len(settlements') = Len(settlements) + 1
          /\ SubSeq(settlements', 1, Len(settlements)) = settlements
          /\ settlements'[Len(settlements')].order_id = o
          /\ settlements'[Len(settlements')].outcome = "SUCCESS"
          /\ settlements'[Len(settlements')].amount > 0
          /\ {ord.order_id : ord \in orders'} = {ord.order_id : ord \in orders}
          /\ OtherOrders(orders', o) = OtherOrders(orders, o)
          /\ \A ord \in orders' :
                ord.order_id = o =>
                   /\ ord.status \in {"AUTHORIZED", "SETTLED"}
                   /\ ord.amount = OrderRow(orders, o).amount
                   /\ ord.card_last4 = OrderRow(orders, o).card_last4]_vars

\* ORD-1 settled in full while ORD-2 stays AUTHORIZED with its own settlement
C38_Witness ==
    /\ last.op = "settle" /\ last.orderId = "ORD-1" /\ last.code = "OK"
    /\ last.status = "SETTLED"
    /\ OrderExists("ORD-2") /\ StatusOf(orders, "ORD-2") = "AUTHORIZED"
    /\ Len(RowsOf(settlements, "ORD-2")) = 1
    /\ Len(RowsOf(settlements, "ORD-1")) = 1


\* C39: every amount authorize stores on an order or on an authorization is
\* strictly greater than 0.
C39_StoredAmountsPositive ==
    /\ \A o \in orders : o.amount > 0
    /\ \A a \in authorizations : a.amount > 0


\* the ids of the store of the exact form ORD-<digits>, and their numbers
NumericOrdIds == {o.order_id : o \in {q \in orders : q.order_id.prefix = "ORD-" /\ q.order_id.digits}}
\* n + 1 on integers
plusOneExact(x) == [x EXCEPT !.lo = @ + 1]
LargestNumber == CHOOSE n \in {i.v : i \in NumericOrdIds} : \A i \in NumericOrdIds : ~greater(i.v, n)

\* C40: the id returned is ORD-<n+1>, n the largest number among the stored
\* ids of the form ORD-<digits>, it is ORD-1001 when there is no such id, and
\* it is not the id of a stored order.
C40_NextIdFollowsLargest ==
    last.op = "orderNext" =>
        /\ last.orderId = IF NumericOrdIds = {} THEN OrdId(0, Small(1001))
                          ELSE OrdId(0, plusOneExact(LargestNumber))
        /\ \A o \in orders : o.order_id # last.orderId

====
